---- MODULE Spec2Model ----
(***************************************************************************)
(* Model of the SpendGuardian backend: the spreadsheet ingestion core,     *)
(* parseFile (sheet selection, header location, row filter, active         *)
(* columns, type inference, row materialisation) and suggestCharts, and    *)
(* the handlers of the HTTP API over Firestore and Cloud Storage.          *)
(*                                                                         *)
(* A JavaScript string is a sequence of one-character strings, so that     *)
(* trim, toLowerCase and the regular expressions of the source are         *)
(* computed on the characters.  A cell is a record [k, s]: k is "null",    *)
(* "str" or "date" (a Date instance), s is what String(cell) returns.      *)
(***************************************************************************)
EXTENDS Integers, Sequences, FiniteSets, TLC

VARIABLES
    pc,          \* "ready" before the call, then the name of the call made
    rawRows,     \* parseFile: the array-of-arrays read from the sheet
    parsed,      \* parseFile: the returned object, with its local arrays
    refiltered,  \* the dataRows filter applied to parsed.dataRows
    values,      \* inferColumnType: the argument
    colType,     \* inferColumnType: the returned type
    sample,      \* values.slice(0, 5) as parseFile emits it
    permValues,  \* a reordering of values
    permType,    \* inferColumnType(permValues)
    permSample,  \* permValues.slice(0, 5)
    chartCols,   \* suggestCharts: the argument
    suggested,   \* suggestCharts: the returned {charts, statCards}
    workbook,    \* parseFile: the workbook read from the buffer
    requested,   \* parseFile: the selectedSheet argument
    otherCols,   \* suggestCharts: the argument of a second call
    otherSuggested, \* suggestCharts: what the second call returned
    users,       \* Firestore: the uids that have a users/{uid} document
    projects,    \* Firestore: the projects/{id} documents
    sheets,      \* Firestore: the projects/{id}/sheets/{sheetId} documents
    files,       \* Cloud Storage: the objects of the bucket
    reqs,        \* the HTTP requests being handled and those answered
    issued       \* how many identifiers crypto.randomUUID() has returned

\* the workbook and the second suggestCharts call
sheetVars == <<workbook, requested, otherCols, otherSuggested>>

\* the stores behind the HTTP API and the requests on them
apiVars == <<users, projects, sheets, files, reqs, issued>>

vars == <<pc, rawRows, parsed, refiltered, values, colType, sample,
          permValues, permType, permSample, chartCols, suggested,
          sheetVars, apiVars>>

None == [none |-> TRUE]

Min(a, b) == IF a < b THEN a ELSE b

\* no workbook and no second call
NoSheet ==
    /\ workbook = None /\ requested = None
    /\ otherCols = None /\ otherSuggested = None

\* no HTTP API
NoApi ==
    /\ users = None /\ projects = None /\ sheets = None
    /\ files = None /\ reqs = None /\ issued = None

(***************************************************************************)
(* Strings                                                                 *)
(***************************************************************************)
Digit == {"0", "1", "2", "3", "4", "5", "6", "7", "8", "9"}

WhiteSpace == {" "}

Upper == <<"A", "B", "C", "D", "E", "F", "G", "H", "I", "J", "K", "L", "M",
           "N", "O", "P", "Q", "R", "S", "T", "U", "V", "W", "X", "Y", "Z">>

Lower == <<"a", "b", "c", "d", "e", "f", "g", "h", "i", "j", "k", "l", "m",
           "n", "o", "p", "q", "r", "s", "t", "u", "v", "w", "x", "y", "z">>

UpperToLower ==
    [c \in {Upper[i] : i \in 1..26} |-> Lower[CHOOSE i \in 1..26 : Upper[i] = c]]

ToLowerChar(c) == IF c \in DOMAIN UpperToLower THEN UpperToLower[c] ELSE c

\* String.prototype.toLowerCase
ToLowerCase(s) == [i \in 1..Len(s) |-> ToLowerChar(s[i])]

RECURSIVE TrimStart(_)
TrimStart(s) ==
    IF s = <<>> \/ Head(s) \notin WhiteSpace THEN s ELSE TrimStart(Tail(s))

RECURSIVE TrimEnd(_)
TrimEnd(s) ==
    IF s = <<>> \/ s[Len(s)] \notin WhiteSpace THEN s
    ELSE TrimEnd(SubSeq(s, 1, Len(s) - 1))

\* String.prototype.trim
Trim(s) == TrimEnd(TrimStart(s))

(***************************************************************************)
(* Regular expressions.  A pattern is a sequence of items; an item repeats *)
(* its body lo..hi times; the body is a set of literal words (a character  *)
(* class is a set of one-character words) or a group of items.  Ends gives *)
(* every position where a match started at a position of P can end, so     *)
(* backtracking is covered.                                                *)
(***************************************************************************)
Inf == -1

Cls(chars, lo, hi) ==
    [t |-> "w", w |-> {<<c>> : c \in chars}, n |-> {1}, sub |-> <<>>,
     lo |-> lo, hi |-> hi]

Words(ws, lo, hi) ==
    [t |-> "w", w |-> ws, n |-> {Len(w) : w \in ws}, sub |-> <<>>,
     lo |-> lo, hi |-> hi]

Group(items, lo, hi) ==
    [t |-> "g", w |-> {}, n |-> {}, sub |-> items, lo |-> lo, hi |-> hi]

RECURSIVE Ends(_, _, _)
RECURSIVE Times(_, _, _, _)

\* positions after one match of the body of item, started in P; n holds the
\* lengths of the words of w
Once(item, s, P) ==
    IF item.t = "w"
    THEN {pn[1] + pn[2] : pn \in
            {qn \in P \X item.n :
                /\ qn[1] + qn[2] <= Len(s)
                /\ SubSeq(s, qn[1] + 1, qn[1] + qn[2]) \in item.w}}
    ELSE Ends(item.sub, s, P)

\* positions after k..hi matches of the body, P being the positions after k
Times(item, s, P, k) ==
    LET here == IF k >= item.lo THEN P ELSE {}
    IN  IF P = {} \/ (item.hi # Inf /\ k >= item.hi)
        THEN here
        ELSE here \cup Times(item, s, Once(item, s, P), k + 1)

Ends(items, s, P) ==
    IF items = <<>> \/ P = {}
    THEN P
    ELSE Ends(Tail(items), s, Times(Head(items), s, P, 0))

\* /^items$/.test(s)
TestFull(items, s) == Len(s) \in Ends(items, s, {0})

\* /^items/.test(s)
TestPrefix(items, s) == Ends(items, s, {0}) # {}

(***************************************************************************)
(* Cells                                                                   *)
(***************************************************************************)
Null == [k |-> "null", s |-> <<>>]

Str(s) == [k |-> "str", s |-> s]

\* cell !== null && String(cell).trim() !== ''
IsFilled(cell) == cell.k # "null" /\ Trim(cell.s) # <<>>

DigitChars == <<"0", "1", "2", "3", "4", "5", "6", "7", "8", "9">>

RECURSIVE ToDecimal(_)
\* String(n) of a non-negative integer
ToDecimal(n) ==
    IF n < 10 THEN <<DigitChars[n + 1]>>
    ELSE ToDecimal(n \div 10) \o <<DigitChars[(n % 10) + 1]>>

\* the cell values the inputs are made of
Blank    == Str(<<" ">>)
Label    == Str(<<"T", "O", "T", "A", "L">>)
Money    == Str(<<"$", "4", "5", "0">>)
Plain    == Str(<<"1", ",", "2", "0", "0">>)
Percent  == Str(<<"1", "2", ".", "5", "%">>)
DateText == Str(<<"5", " ", "J", "a", "n", " ", "2", "0", "2", "4">>)
LabelLc  == Str(<<" ", "t", "o", "t", "a", "l">>)
\* a Date instance; s is String(date)
DateCell == [k |-> "date",
             s |-> <<"F", "r", "i", " ", "J", "a", "n", " ", "0", "5", " ", "2", "0", "2", "4", " ", "0", "0", ":", "0", "0", ":", "0", "0", " ", "G", "M", "T", "+", "0", "0", "0", "0", " ", "(", "C", "o", "o", "r", "d", "i", "n", "a", "t", "e", "d", " ", "U", "n", "i", "v", "e", "r", "s", "a", "l", " ", "T", "i", "m", "e", ")">>]

ValuePalette == {Label, LabelLc, Money, Plain, Percent, DateText, DateCell}

\* the n-th of the distinct labels "xa", "xb", ...
Filler(n) == Str(<<"x", Lower[n]>>)

KnownValues ==
    {Null, Blank} \cup ValuePalette \cup {Filler(n) : n \in 1..Len(Lower)}

(***************************************************************************)
(* The regular expressions of the source                                   *)
(***************************************************************************)
CurrencyGlyph == {"$", "£", "€", "¥", "₹", "₨"}

Fraction == Group(<<Cls({"."}, 1, 1), Cls(Digit, 1, Inf)>>, 0, 1)

\* /^-?[\d$£€,.]+/
LooksLikeDataRe ==
    <<Cls({"-"}, 0, 1), Cls(Digit \cup {"$", "£", "€", ",", "."}, 1, Inf)>>

\* /^-?\d+(\.\d+)?%$/
PercentageRe ==
    <<Cls({"-"}, 0, 1), Cls(Digit, 1, Inf), Fraction, Cls({"%"}, 1, 1)>>

\* /^-?[$£€¥₹₨]\s?[\d,]+(\.\d+)?$/
CurrencyLeadRe ==
    <<Cls({"-"}, 0, 1), Cls(CurrencyGlyph, 1, 1), Cls(WhiteSpace, 0, 1),
      Cls(Digit \cup {","}, 1, Inf), Fraction>>

\* /^[\d,]+(\.\d+)?\s?[$£€¥₹₨]$/
CurrencyTrailRe ==
    <<Cls(Digit \cup {","}, 1, Inf), Fraction, Cls(WhiteSpace, 0, 1),
      Cls(CurrencyGlyph, 1, 1)>>

\* /^-?[\d,]+(\.\d+)?$/
NumberRe == <<Cls({"-"}, 0, 1), Cls(Digit \cup {","}, 1, Inf), Fraction>>

DateSep == {"/", "-"}

\* (Jan|Feb|...|Dec) under the i flag: matched on the lower-cased string
Month ==
    {<<"j", "a", "n">>, <<"f", "e", "b">>, <<"m", "a", "r">>,
     <<"a", "p", "r">>, <<"m", "a", "y">>, <<"j", "u", "n">>,
     <<"j", "u", "l">>, <<"a", "u", "g">>, <<"s", "e", "p">>,
     <<"o", "c", "t">>, <<"n", "o", "v">>, <<"d", "e", "c">>}

\* /^\d{1,2}[\/\-]\d{1,2}[\/\-]\d{2,4}$/
DateDMYRe ==
    <<Cls(Digit, 1, 2), Cls(DateSep, 1, 1), Cls(Digit, 1, 2),
      Cls(DateSep, 1, 1), Cls(Digit, 2, 4)>>

\* /^\d{4}[\/\-]\d{1,2}[\/\-]\d{1,2}$/
DateYMDRe ==
    <<Cls(Digit, 4, 4), Cls(DateSep, 1, 1), Cls(Digit, 1, 2),
      Cls(DateSep, 1, 1), Cls(Digit, 1, 2)>>

\* /^(Jan|...|Dec)\s+\d{1,2},?\s+\d{4}$/i
DateMonDYRe ==
    <<Words(Month, 1, 1), Cls(WhiteSpace, 1, Inf), Cls(Digit, 1, 2),
      Cls({","}, 0, 1), Cls(WhiteSpace, 1, Inf), Cls(Digit, 4, 4)>>

\* /^\d{1,2}\s+(Jan|...|Dec)\s+\d{4}$/i
DateDMonYRe ==
    <<Cls(Digit, 1, 2), Cls(WhiteSpace, 1, Inf), Words(Month, 1, 1),
      Cls(WhiteSpace, 1, Inf), Cls(Digit, 4, 4)>>

isLikelyDate(str) ==
    LET t == Trim(str)
    IN  \/ TestFull(DateDMYRe, t)
        \/ TestFull(DateYMDRe, t)
        \/ TestFull(DateMonDYRe, ToLowerCase(t))
        \/ TestFull(DateDMonYRe, ToLowerCase(t))

(***************************************************************************)
(* inferColumnType                                                         *)
(***************************************************************************)
\* the counter one value increments in the loop, "none" when it reaches the
\* end of the loop body
ClassifyValue(raw) ==
    LET v == Trim(raw.s)
    IN  IF TestFull(PercentageRe, v) THEN "percentage"
        ELSE IF TestFull(CurrencyLeadRe, v) \/ TestFull(CurrencyTrailRe, v)
             THEN "currency"
        ELSE IF TestFull(NumberRe, v) THEN "number"
        ELSE IF raw.k = "date" \/ isLikelyDate(v) THEN "date"
        ELSE "none"

\* ClassifyValue tabulated over the values of the inputs
ClassTable == [raw \in KnownValues |-> ClassifyValue(raw)]

Classify(raw) ==
    IF raw \in DOMAIN ClassTable THEN ClassTable[raw] ELSE ClassifyValue(raw)

\* the comparison with a threshold of one half
MeetsThresholdHalf(count, total) == 2 * count >= total

\* count / total >= 0.6 (threshold = 0.6): the quotient is the double
\* nearest to count/total and 0.6 the double nearest to 3/5, so the
\* comparison is that of the exact fractions
MeetsThreshold(count, total) == 5 * count >= 3 * total

UniqueLimit == 20

\* the loop with break for the last continue: it stops at the first value
\* that matches no pattern
ClassesBreak(vals) ==
    [i \in 1..Len(vals) |->
        IF \E j \in 1..i : Classify(vals[j]) = "none" THEN "none"
        ELSE Classify(vals[i])]

\* the for loop over the values: the counter each value increments
Classes(vals) == [i \in 1..Len(vals) |-> Classify(vals[i])]

\* the threshold checks with the combined Number check ahead of Currency
inferColumnTypeNumberFirst(vals) ==
    IF Len(vals) = 0 THEN "Text"
    ELSE
    LET class == Classes(vals)
        CountOf(c) == Cardinality({i \in 1..Len(vals) : class[i] = c})
        total  == Len(vals)
        unique == {ToLowerCase(Trim(vals[i].s)) : i \in 1..Len(vals)}
    IN  IF MeetsThreshold(CountOf("percentage"), total) THEN "Percentage"
        ELSE IF MeetsThreshold(CountOf("number") + CountOf("currency"), total)
             THEN "Number"
        ELSE IF MeetsThreshold(CountOf("currency"), total) THEN "Currency"
        ELSE IF MeetsThreshold(CountOf("date"), total) THEN "Date"
        ELSE IF Cardinality(unique) <= UniqueLimit THEN "Category"
        ELSE "Text"

\* the checks without the early return for no values: every quotient is
\* then 0/0 = NaN, which is >= nothing, and the set of values is empty
inferColumnTypeNoEarlyReturn(vals) ==
    LET class == Classes(vals)
        CountOf(c) == Cardinality({i \in 1..Len(vals) : class[i] = c})
        total  == Len(vals)
        unique == {ToLowerCase(Trim(vals[i].s)) : i \in 1..Len(vals)}
        Meets(count) == total > 0 /\ MeetsThreshold(count, total)
    IN  IF Meets(CountOf("percentage")) THEN "Percentage"
        ELSE IF Meets(CountOf("currency")) THEN "Currency"
        ELSE IF Meets(CountOf("date")) THEN "Date"
        ELSE IF Meets(CountOf("number") + CountOf("currency")) THEN "Number"
        ELSE IF Cardinality(unique) <= UniqueLimit THEN "Category"
        ELSE "Text"

inferColumnType(vals) ==
    IF Len(vals) = 0 THEN "Text"
    ELSE
    LET class == Classes(vals)
        CountOf(c) == Cardinality({i \in 1..Len(vals) : class[i] = c})
        dateCount       == CountOf("date")
        numberCount     == CountOf("number")
        currencyCount   == CountOf("currency")
        percentageCount == CountOf("percentage")
        total           == Len(vals)
        unique == {ToLowerCase(Trim(vals[i].s)) : i \in 1..Len(vals)}
    IN  IF MeetsThreshold(percentageCount, total) THEN "Percentage"
        ELSE IF MeetsThreshold(currencyCount, total) THEN "Currency"
        ELSE IF MeetsThreshold(dateCount, total) THEN "Date"
        ELSE IF MeetsThreshold(numberCount + currencyCount, total)
             THEN "Number"
        ELSE IF Cardinality(unique) <= UniqueLimit THEN "Category"
        ELSE "Text"

\* Array.prototype.slice(from, to), 0-based, to exclusive
Slice(seq, from, to) == SubSeq(seq, from + 1, Min(to, Len(seq)))

SampleSize == 5

(***************************************************************************)
(* parseFile.  Array indices are 0-based as in the source; row[i] of the   *)
(* source is row[i + 1] here.                                              *)
(***************************************************************************)
\* Array.prototype.filter on a sequence, by a set of kept 1-based indices
RECURSIVE FilterIdx(_, _, _)
FilterIdx(seq, keep, i) ==
    IF i > Len(seq) THEN <<>>
    ELSE (IF i \in keep THEN <<seq[i]>> ELSE <<>>)
             \o FilterIdx(seq, keep, i + 1)

\* row.filter(cell => cell !== null && String(cell).trim() !== '').length
NonEmptyCount(row) == Cardinality({j \in 1..Len(row) : IsFilled(row[j])})

ScanWindow == 10

\* the header scan with >= for >: the last row reaching the maximum wins
RECURSIVE HeaderScanLastMax(_, _, _, _)
HeaderScanLastMax(rows, i, headerRowIndex, maxNonEmpty) ==
    IF i >= Min(ScanWindow, Len(rows))
    THEN headerRowIndex
    ELSE LET nonEmpty == NonEmptyCount(rows[i + 1])
         IN  IF nonEmpty >= maxNonEmpty
             THEN HeaderScanLastMax(rows, i + 1, i, nonEmpty)
             ELSE HeaderScanLastMax(rows, i + 1, headerRowIndex, maxNonEmpty)

\* the header scan loop from iteration i on, with the loop's two variables
RECURSIVE HeaderScan(_, _, _, _)
HeaderScan(rows, i, headerRowIndex, maxNonEmpty) ==
    IF i >= Min(ScanWindow, Len(rows))
    THEN headerRowIndex
    ELSE LET nonEmpty == NonEmptyCount(rows[i + 1])
         IN  IF nonEmpty > maxNonEmpty
             THEN HeaderScan(rows, i + 1, i, nonEmpty)
             ELSE HeaderScan(rows, i + 1, headerRowIndex, maxNonEmpty)

ColumnPrefix == <<"C", "o", "l", "u", "m", "n", "_">>

\* rawHeaders.map((h, i) => clean !== '' ? clean : `Column_${i + 1}`)
Headers(rawHeaders) ==
    [j \in 1..Len(rawHeaders) |->
        LET clean == IF rawHeaders[j].k # "null"
                     THEN Trim(rawHeaders[j].s) ELSE <<>>
        IN  IF clean # <<>> THEN clean ELSE ColumnPrefix \o ToDecimal(j)]

\* the predicate of the dataRows filter
KeepRow(row) ==
    LET nonEmpty == NonEmptyCount(row)
        \* String(row[0] ?? '').trim()
        firstVal == IF Len(row) = 0 \/ row[1].k = "null"
                    THEN <<>> ELSE Trim(row[1].s)
        looksLikeData ==
            \/ TestPrefix(LooksLikeDataRe, firstVal)
            \/ (Len(row) > 0 /\ row[1].k = "date")
    IN  IF nonEmpty = 0 THEN FALSE
        ELSE IF nonEmpty = 1 /\ ~looksLikeData THEN FALSE
        ELSE TRUE

\* the filter started one row late, as after a second slice(1)
FilterRowsOffByOne(rows) ==
    FilterIdx(rows, {i \in 2..Len(rows) : KeepRow(rows[i])}, 1)

\* rows.filter(row => ...) of the dataRows computation
FilterRows(rows) ==
    FilterIdx(rows, {i \in 1..Len(rows) : KeepRow(rows[i])}, 1)

\* the activeColIndices filter with && for ||
ActiveSetBothNeeded(rawHeaders, dataRows) ==
    {i \in 0..(Len(rawHeaders) - 1) :
        LET hasHeaderName == IsFilled(rawHeaders[i + 1])
            hasData == \E r \in 1..Len(dataRows) : IsFilled(dataRows[r][i + 1])
        IN  hasHeaderName /\ hasData}

\* the 0-based column indices kept by the activeColIndices filter, as a set
ActiveSet(rawHeaders, dataRows) ==
    {i \in 0..(Len(rawHeaders) - 1) :
        LET hasHeaderName == IsFilled(rawHeaders[i + 1])
            hasData == \E r \in 1..Len(dataRows) : IsFilled(dataRows[r][i + 1])
        IN  hasHeaderName \/ hasData}

\* headers.map((_, i) => i).filter(...): the kept indices in index order
ActiveColIndices(rawHeaders, dataRows) ==
    FilterIdx([j \in 1..Len(rawHeaders) |-> j - 1],
              {i + 1 : i \in ActiveSet(rawHeaders, dataRows)}, 1)

\* dataRows.map(row => row[colIndex]).filter(v => v non-empty)
ColumnValues(dataRows, colIndex) ==
    LET col == [r \in 1..Len(dataRows) |-> dataRows[r][colIndex + 1]]
    IN  FilterIdx(col, {r \in 1..Len(col) : IsFilled(col[r])}, 1)

Columns(finalHeaders, activeColIndices, dataRows) ==
    [idx \in 1..Len(finalHeaders) |->
        LET vals == ColumnValues(dataRows, activeColIndices[idx])
        IN  [name   |-> finalHeaders[idx],
             type   |-> inferColumnType(vals),
             sample |-> Slice(vals, 0, SampleSize)]]

\* the object with only the null test: a blank string is kept as it is
RowObjectNullTestOnly(row, finalHeaders, activeColIndices) ==
    [name \in {finalHeaders[idx] : idx \in 1..Len(finalHeaders)} |->
        LET last == CHOOSE idx \in 1..Len(finalHeaders) :
                        /\ finalHeaders[idx] = name
                        /\ \A other \in 1..Len(finalHeaders) :
                               finalHeaders[other] = name => other <= idx
        IN  row[activeColIndices[last] + 1]]

\* the object built by obj[finalHeaders[idx]] = ... for idx in order: one
\* property per distinct name, holding the last value assigned to it
RowObject(row, finalHeaders, activeColIndices) ==
    [name \in {finalHeaders[idx] : idx \in 1..Len(finalHeaders)} |->
        LET last == CHOOSE idx \in 1..Len(finalHeaders) :
                        /\ finalHeaders[idx] = name
                        /\ \A other \in 1..Len(finalHeaders) :
                               finalHeaders[other] = name => other <= idx
            val == row[activeColIndices[last] + 1]
        IN  IF IsFilled(val) THEN val ELSE Null]

PreviewSize == 10

parseFile(rows) ==
    IF Len(rows) = 0
    THEN [ok |-> FALSE, error |-> "The selected sheet is empty"]
    ELSE
    LET headerRowIndex   == HeaderScan(rows, 0, 0, 0)
        rawHeaders       == rows[headerRowIndex + 1]
        headers          == Headers(rawHeaders)
        dataRows         == FilterRows(SubSeq(rows, headerRowIndex + 2, Len(rows)))
        activeColIndices == ActiveColIndices(rawHeaders, dataRows)
        finalHeaders     == [idx \in 1..Len(activeColIndices) |->
                                headers[activeColIndices[idx] + 1]]
        columns          == Columns(finalHeaders, activeColIndices, dataRows)
        objs             == [r \in 1..Len(dataRows) |->
                                RowObject(dataRows[r], finalHeaders,
                                          activeColIndices)]
    IN  [ok               |-> TRUE,
         headerRowIndex   |-> headerRowIndex,
         dataRows         |-> dataRows,
         activeColIndices |-> activeColIndices,
         rowCount         |-> Len(objs),
         columns          |-> columns,
         preview          |-> Slice(objs, 0, PreviewSize),
         rows             |-> objs]

\* the sheet the fallback takes when the request names none: the last one
TargetSheetFallbackLast(sheetNames, selectedSheet) ==
    IF selectedSheet.k = "str" /\ selectedSheet.s # <<>>
       /\ \E n \in 1..Len(sheetNames) : sheetNames[n] = selectedSheet.s
    THEN selectedSheet.s
    ELSE sheetNames[Len(sheetNames)]

\* selectedSheet && sheetNames.includes(selectedSheet) ? selectedSheet
\*                                                     : sheetNames[0]
\* (null and the empty string are falsy)
TargetSheet(sheetNames, selectedSheet) ==
    IF selectedSheet.k = "str" /\ selectedSheet.s # <<>>
       /\ \E n \in 1..Len(sheetNames) : sheetNames[n] = selectedSheet.s
    THEN selectedSheet.s
    ELSE sheetNames[1]

\* parseFile from the workbook on: wb.SheetNames is the list of names and
\* wb.Sheets[name] the array-of-arrays sheet_to_json gives for that sheet
parseWorkbook(wb, selectedSheet) ==
    IF Len(wb.SheetNames) = 0
    THEN [ok |-> FALSE, error |-> "The file contains no sheets"]
    ELSE
    LET targetSheet == TargetSheet(wb.SheetNames, selectedSheet)
        result      == parseFile(wb.Sheets[targetSheet])
    IN  IF result.ok
        THEN [sheetNames    |-> wb.SheetNames,
              selectedSheet |-> targetSheet] @@ result
        ELSE result

(***************************************************************************)
(* suggestCharts                                                           *)
(***************************************************************************)
RECURSIVE ReplaceWs(_)
\* str.replace(/\s+/g, '_'): every maximal run of whitespace becomes one '_'
ReplaceWs(str) ==
    IF str = <<>> THEN <<>>
    ELSE IF Head(str) \in WhiteSpace
         THEN LET rest == ReplaceWs(Tail(str))
              IN  IF Len(str) > 1 /\ str[2] \in WhiteSpace
                  THEN rest
                  ELSE <<"_">> \o rest
         ELSE <<Head(str)>> \o ReplaceWs(Tail(str))

\* the numeric types without Percentage
NumericTypesNoPercentage == {"Number", "Currency"}

NumericTypes == {"Number", "Currency", "Percentage"}

\* the filter that also wants a value in the column's sample
ColsOfTypeWithSample(columns, types) ==
    FilterIdx(columns, {i \in 1..Len(columns) :
                           columns[i].type \in types /\ columns[i].sample # <<>>}, 1)

\* columns.filter(c => pred(c.type)), by the set of accepted types
ColsOfType(columns, types) ==
    FilterIdx(columns, {i \in 1..Len(columns) : columns[i].type \in types}, 1)

LineChart(dateCol, numCol) ==
    [id          |-> ReplaceWs(<<"l", "i", "n", "e", "_">> \o dateCol.name \o <<"_">> \o numCol.name),
     chartType   |-> "line",
     title       |-> numCol.name \o <<" ", "O", "v", "e", "r", " ", "T", "i", "m", "e">>,
     xColumn     |-> dateCol.name,
     yColumn     |-> numCol.name,
     description |-> <<"T", "r", "e", "n", "d", " ", "o", "f", " ">> \o numCol.name \o <<" ", "b", "y", " ">> \o dateCol.name]

AreaChart(dateCol, numCol) ==
    [id          |-> ReplaceWs(<<"a", "r", "e", "a", "_">> \o dateCol.name \o <<"_">> \o numCol.name),
     chartType   |-> "area",
     title       |-> numCol.name \o <<" ", "A", "r", "e", "a", " ", "T", "r", "e", "n", "d">>,
     xColumn     |-> dateCol.name,
     yColumn     |-> numCol.name,
     description |-> <<"A", "r", "e", "a", " ", "c", "h", "a", "r", "t", " ", "o", "f", " ">> \o numCol.name \o <<" ", "o", "v", "e", "r", " ">> \o dateCol.name]

BarChart(catCol, numCol) ==
    [id          |-> ReplaceWs(<<"b", "a", "r", "_">> \o catCol.name \o <<"_">> \o numCol.name),
     chartType   |-> "bar",
     title       |-> numCol.name \o <<" ", "b", "y", " ">> \o catCol.name,
     xColumn     |-> catCol.name,
     yColumn     |-> numCol.name,
     description |-> <<"C", "o", "m", "p", "a", "r", "e", " ">> \o numCol.name \o <<" ", "a", "c", "r", "o", "s", "s", " ">> \o catCol.name
                         \o <<" ", "c", "a", "t", "e", "g", "o", "r", "i", "e", "s">>]

PieChart(catCol, numCol) ==
    [id          |-> ReplaceWs(<<"p", "i", "e", "_">> \o catCol.name \o <<"_">> \o numCol.name),
     chartType   |-> "pie",
     title       |-> numCol.name \o <<" ", "D", "i", "s", "t", "r", "i", "b", "u", "t", "i", "o", "n", " ", "b", "y", " ">> \o catCol.name,
     xColumn     |-> catCol.name,
     yColumn     |-> numCol.name,
     description |-> <<"P", "r", "o", "p", "o", "r", "t", "i", "o", "n", " ", "o", "f", " ">> \o numCol.name \o <<" ", "p", "e", "r", " ">> \o catCol.name]

StatCard(col) ==
    [id          |-> ReplaceWs(<<"s", "t", "a", "t", "s", "_">> \o col.name),
     chartType   |-> "stats",
     title       |-> col.name \o <<" ", "S", "u", "m", "m", "a", "r", "y">>,
     yColumn     |-> col.name,
     description |-> <<"T", "o", "t", "a", "l", ",", " ", "A", "v", "e", "r", "a", "g", "e", ",", " ", "M", "i", "n", ",", " ", "M", "a", "x", " ", "f", "o", "r", " ">> \o col.name]

\* for (dateCol of dateCols) for (numCol of numericCols) { push line; push area }
LineAreaLoop(dateCols, numericCols) ==
    [n \in 1..(2 * Len(dateCols) * Len(numericCols)) |->
        LET pair    == (n - 1) \div 2
            dateCol == dateCols[(pair \div Len(numericCols)) + 1]
            numCol  == numericCols[(pair % Len(numericCols)) + 1]
        IN  IF (n - 1) % 2 = 0 THEN LineChart(dateCol, numCol)
            ELSE AreaChart(dateCol, numCol)]

\* the bar loops nested the other way round: numeric outer, category inner
BarLoopNumericOuter(categoryCols, numericCols) ==
    [n \in 1..(Len(categoryCols) * Len(numericCols)) |->
        BarChart(categoryCols[((n - 1) % Len(categoryCols)) + 1],
                 numericCols[((n - 1) \div Len(categoryCols)) + 1])]

\* for (catCol of categoryCols) for (numCol of numericCols) { push bar }
BarLoop(categoryCols, numericCols) ==
    [n \in 1..(Len(categoryCols) * Len(numericCols)) |->
        BarChart(categoryCols[((n - 1) \div Len(numericCols)) + 1],
                 numericCols[((n - 1) % Len(numericCols)) + 1])]

\* for (catCol of categoryCols) for (numCol of numericCols) { push pie }
PieLoop(categoryCols, numericCols) ==
    [n \in 1..(Len(categoryCols) * Len(numericCols)) |->
        PieChart(categoryCols[((n - 1) \div Len(numericCols)) + 1],
                 numericCols[((n - 1) % Len(numericCols)) + 1])]

\* the suggestions array after the three loop nests
Suggestions(dateCols, numericCols, categoryCols) ==
    LineAreaLoop(dateCols, numericCols)
        \o BarLoop(categoryCols, numericCols)
        \o PieLoop(categoryCols, numericCols)

\* the partition with every column that is neither a date nor numeric
\* taken as a category
suggestChartsRestCategory(columns) ==
    LET dateCols     == ColsOfType(columns, {"Date"})
        numericCols  == ColsOfType(columns, NumericTypes)
        categoryCols == ColsOfType(columns, {c.type : c \in {columns[i] : i \in 1..Len(columns)}}
                                                \ ({"Date"} \cup NumericTypes))
    IN  [charts    |-> Suggestions(dateCols, numericCols, categoryCols),
         statCards |-> [n \in 1..Len(numericCols) |-> StatCard(numericCols[n])]]

suggestCharts(columns) ==
    LET dateCols     == ColsOfType(columns, {"Date"})
        numericCols  == ColsOfType(columns, NumericTypes)
        categoryCols == ColsOfType(columns, {"Category"})
    IN  [charts    |-> Suggestions(dateCols, numericCols, categoryCols),
         statCards |-> [n \in 1..Len(numericCols) |-> StatCard(numericCols[n])]]

(***************************************************************************)
(* Inputs                                                                  *)
(***************************************************************************)
MaxCols == 2        \* widest grid
MaxRows == 2        \* longest grid over the full cell palette
MaxLead == 10       \* most repeated leading rows of a tall grid
MaxTail == 2        \* most rows after the leading rows of a tall grid
MaxVals == 3        \* longest list over the full value palette
MaxPad == 2         \* most distinct labels appended to such a list
MaxFill == 21       \* most distinct labels after at most one palette value
MaxPermLen == 6     \* longest list that is reordered
MaxChartCols == 4   \* longest column list given to suggestCharts

CellPalette == {Null, Blank, Label, Money}

\* every sequence of length n over the set S
SeqsOfLen(S, n) == [1..n -> S]

\* rectangular grids of n rows and w columns over the cell palette
RichGrids(w, n) == SeqsOfLen(SeqsOfLen(CellPalette, w), n)

\* rows that come before the table in a sheet: blank, a title, a header
LeadRows(w) ==
    {[j \in 1..w |-> Null],
     [j \in 1..w |-> IF j = 1 THEN Label ELSE Null],
     [j \in 1..w |-> Label]}

TailRows(w) ==
    LeadRows(w) \cup {[j \in 1..w |-> Money],
                      [j \in 1..w |-> IF j = w THEN Money ELSE Blank],
                      [j \in 1..w |-> IF j = 1 THEN DateCell ELSE Null]}

\* k copies of one leading row, then the rows of tail
TallGrid(lead, k, tail) == [i \in 1..k |-> lead] \o tail


(***************************************************************************)
(* parseFile as a call: the grid is the input, the call returns parsed;    *)
(* the row filter can then be applied again to the rows it retained.       *)
(***************************************************************************)
InitParse ==
    /\ pc = "ready"
    /\ \E w \in 1..MaxCols :
          \/ \E n \in 0..MaxRows : rawRows \in RichGrids(w, n)
          \/ \E lead \in LeadRows(w), k \in 1..MaxLead, n \in 0..MaxTail :
                 \E tail \in SeqsOfLen(TailRows(w), n) :
                     rawRows = TallGrid(lead, k, tail)
    /\ parsed = None
    /\ refiltered = None
    /\ values = None /\ colType = None /\ sample = None
    /\ permValues = None /\ permType = None /\ permSample = None
    /\ chartCols = None /\ suggested = None
    /\ NoSheet /\ NoApi

ParseFile ==
    /\ pc = "ready"
    /\ parsed' = parseFile(rawRows)
    /\ pc' = "parsed"
    /\ UNCHANGED <<rawRows, refiltered, values, colType, sample, permValues,
                   permType, permSample, chartCols, suggested>>
    /\ UNCHANGED <<sheetVars, apiVars>>

Refilter ==
    /\ pc = "parsed"
    /\ parsed.ok
    /\ refiltered' = FilterRows(parsed.dataRows)
    /\ pc' = "refiltered"
    /\ UNCHANGED <<rawRows, parsed, values, colType, sample, permValues,
                   permType, permSample, chartCols, suggested>>
    /\ UNCHANGED <<sheetVars, apiVars>>

NextParse == ParseFile \/ Refilter

SpecParse == InitParse /\ [][NextParse]_vars

(***************************************************************************)
(* inferColumnType as a call, with the sample parseFile emits for the same *)
(* values, and the same call on the values with two neighbours exchanged   *)
(* (the exchanges of neighbours generate every reordering).                *)
(***************************************************************************)
\* the values of list followed by k distinct labels
Padded(list, k) == list \o [n \in 1..k |-> Filler(n)]

PermPalette == {Label, Money, Plain}

Swap(seq, i, j) ==
    [n \in 1..Len(seq) |-> IF n = i THEN seq[j] ELSE IF n = j THEN seq[i] ELSE seq[n]]

InitInfer ==
    /\ pc = "ready"
    /\ \/ \E len \in 0..MaxVals, k \in 0..MaxPad :
              \E mixed \in SeqsOfLen(ValuePalette, len) :
                  values = Padded(mixed, k)
       \/ \E len \in 0..1, k \in 0..MaxFill :
              \E head \in SeqsOfLen(ValuePalette, len) :
                  values = Padded(head, k)
       \/ \E len \in 0..MaxPermLen : values \in SeqsOfLen(PermPalette, len)
    /\ colType = None /\ sample = None
    /\ permValues = None /\ permType = None /\ permSample = None
    /\ rawRows = None /\ parsed = None /\ refiltered = None
    /\ chartCols = None /\ suggested = None
    /\ NoSheet /\ NoApi

InferColumnType ==
    /\ pc = "ready"
    /\ colType' = inferColumnType(values)
    /\ sample' = Slice(values, 0, SampleSize)
    /\ pc' = "inferred"
    /\ UNCHANGED <<rawRows, parsed, refiltered, values, permValues, permType,
                   permSample, chartCols, suggested>>
    /\ UNCHANGED <<sheetVars, apiVars>>

InferReordered ==
    /\ pc = "inferred"
    /\ Len(values) <= MaxPermLen
    /\ \E i \in 1..(Len(values) - 1) : permValues' = Swap(values, i, i + 1)
    /\ permType' = inferColumnType(permValues')
    /\ permSample' = Slice(permValues', 0, SampleSize)
    /\ pc' = "reordered"
    /\ UNCHANGED <<rawRows, parsed, refiltered, values, colType, sample,
                   chartCols, suggested>>
    /\ UNCHANGED <<sheetVars, apiVars>>

NextInfer == InferColumnType \/ InferReordered

SpecInfer == InitInfer /\ [][NextInfer]_vars

(***************************************************************************)
(* suggestCharts as a call                                                 *)
(***************************************************************************)
ColumnNames == <<<<"D", "a", "t", "e">>, <<"A", "m", "o", "u", "n", "t">>, <<"C", "a", "t", "e", "g", "o", "r", "y">>, <<"T", "a", "x", " ", " ", "R", "a", "t", "e">>, <<"N", "o", "t", "e", "s">>>>

ColumnTypes ==
    {"Date", "Number", "Currency", "Percentage", "Category", "Text", "Boolean"}

\* the column list whose n-th column has the n-th name and the n-th type
ColumnList(types) ==
    [n \in 1..Len(types) |-> [name |-> ColumnNames[n], type |-> types[n]]]

InitCharts ==
    /\ pc = "ready"
    /\ \E len \in 0..MaxChartCols :
          \E types \in SeqsOfLen(ColumnTypes, len) :
              chartCols = ColumnList(types)
    /\ suggested = None
    /\ rawRows = None /\ parsed = None /\ refiltered = None
    /\ values = None /\ colType = None /\ sample = None
    /\ permValues = None /\ permType = None /\ permSample = None
    /\ NoSheet /\ NoApi

SuggestCharts ==
    /\ pc = "ready"
    /\ suggested' = suggestCharts(chartCols)
    /\ pc' = "suggested"
    /\ UNCHANGED <<rawRows, parsed, refiltered, values, colType, sample,
                   permValues, permType, permSample, chartCols>>
    /\ UNCHANGED <<sheetVars, apiVars>>

NextCharts == SuggestCharts

SpecCharts == InitCharts /\ [][NextCharts]_vars

(***************************************************************************)
(* parseFile as a call on a workbook of several sheets                     *)
(***************************************************************************)
MaxSheets == 3   \* most sheets of a workbook

SheetDigits == <<"1", "2", "3", "4", "5", "6", "7", "8", "9">>

\* the name of the n-th sheet
SheetName(n) == <<"S", "h", "e", "e", "t", SheetDigits[n]>>

\* a name no workbook here has
Missing == <<"M", "i", "s", "s", "i", "n", "g">>

\* the grids of a sheet: no row, a header alone, a header and a data row
SheetGrids ==
    {<<>>, <<<<Label>>>>, <<<<Label, Label>>, <<Money, Blank>>>>}

\* the selectedSheet argument: none, the empty string, a name
SheetRequests(n) ==
    {Null, Str(<<>>), Str(Missing)} \cup {Str(SheetName(i)) : i \in 1..n}

InitSheet ==
    /\ pc = "ready"
    /\ \E n \in 0..MaxSheets :
          /\ \E grids \in SeqsOfLen(SheetGrids, n) :
                 workbook = [SheetNames |-> [i \in 1..n |-> SheetName(i)],
                             Sheets     |-> [name \in {SheetName(i) : i \in 1..n} |->
                                                grids[CHOOSE i \in 1..n : SheetName(i) = name]]]
          /\ requested \in SheetRequests(n)
    /\ parsed = None
    /\ rawRows = None /\ refiltered = None
    /\ values = None /\ colType = None /\ sample = None
    /\ permValues = None /\ permType = None /\ permSample = None
    /\ chartCols = None /\ suggested = None
    /\ otherCols = None /\ otherSuggested = None
    /\ NoApi

ParseWorkbook ==
    /\ pc = "ready"
    /\ parsed' = parseWorkbook(workbook, requested)
    /\ pc' = "parsed"
    /\ UNCHANGED <<rawRows, refiltered, values, colType, sample, permValues,
                   permType, permSample, chartCols, suggested>>
    /\ UNCHANGED <<sheetVars, apiVars>>

NextSheet == ParseWorkbook

SpecSheet == InitSheet /\ [][NextSheet]_vars

(***************************************************************************)
(* suggestCharts called twice, on two column lists that carry the same     *)
(* names and types in the same order and differ in their other fields      *)
(***************************************************************************)
MaxPairCols == 2   \* longest column list of the two calls

PairTypes == {"Date", "Currency", "Category", "Text"}

\* the sample field of a column as parseFile emits it
PairSamples == {<<>>, <<Money>>}

\* the column list with the n-th name, the n-th type and the n-th sample
ColumnListWith(types, samples) ==
    [n \in 1..Len(types) |->
        [name |-> ColumnNames[n], type |-> types[n], sample |-> samples[n]]]

InitPair ==
    /\ pc = "ready"
    /\ \E len \in 0..MaxPairCols :
          \E types \in SeqsOfLen(PairTypes, len) :
              \E one \in SeqsOfLen(PairSamples, len), two \in SeqsOfLen(PairSamples, len) :
                  /\ chartCols = ColumnListWith(types, one)
                  /\ otherCols = ColumnListWith(types, two)
    /\ suggested = None /\ otherSuggested = None
    /\ workbook = None /\ requested = None
    /\ rawRows = None /\ parsed = None /\ refiltered = None
    /\ values = None /\ colType = None /\ sample = None
    /\ permValues = None /\ permType = None /\ permSample = None
    /\ NoApi

SuggestOther ==
    /\ pc = "suggested"
    /\ otherSuggested' = suggestCharts(otherCols)
    /\ pc' = "suggestedBoth"
    /\ UNCHANGED <<rawRows, parsed, refiltered, values, colType, sample,
                   permValues, permType, permSample, chartCols, suggested>>
    /\ UNCHANGED <<workbook, requested, otherCols, apiVars>>

NextPair == SuggestCharts \/ SuggestOther

SpecPair == InitPair /\ [][NextPair]_vars

(***************************************************************************)
(* The sample spreadsheet of the README, parsed and then charted. The     *)
(* cells are the texts of the CSV file.                                    *)
(***************************************************************************)
SampleHeader ==
    <<Str(<<"D", "a", "t", "e">>), Str(<<"C", "a", "t", "e", "g", "o", "r", "y">>), Str(<<"A", "m", "o", "u", "n", "t">>), Str(<<"N", "o", "t", "e", "s">>)>>

SampleData ==
    <<<<Str(<<"J", "a", "n", " ", "2", "0", "2", "4">>), Str(<<"F", "o", "o", "d">>), Str(<<"$", "4", "5", "0">>), Str(<<"G", "r", "o", "c", "e", "r", "i", "e", "s">>)>>,
      <<Str(<<"J", "a", "n", " ", "2", "0", "2", "4">>), Str(<<"R", "e", "n", "t">>), Str(<<"$", "1", "2", "0", "0">>), Str(<<"M", "o", "n", "t", "h", "l", "y", " ", "r", "e", "n", "t">>)>>,
      <<Str(<<"J", "a", "n", " ", "2", "0", "2", "4">>), Str(<<"T", "r", "a", "n", "s", "p", "o", "r", "t">>), Str(<<"$", "8", "0">>), Str(<<"B", "u", "s", " ", "p", "a", "s", "s">>)>>,
      <<Str(<<"F", "e", "b", " ", "2", "0", "2", "4">>), Str(<<"F", "o", "o", "d">>), Str(<<"$", "3", "9", "0">>), Str(<<"G", "r", "o", "c", "e", "r", "i", "e", "s">>)>>,
      <<Str(<<"F", "e", "b", " ", "2", "0", "2", "4">>), Str(<<"R", "e", "n", "t">>), Str(<<"$", "1", "2", "0", "0">>), Str(<<"M", "o", "n", "t", "h", "l", "y", " ", "r", "e", "n", "t">>)>>,
      <<Str(<<"F", "e", "b", " ", "2", "0", "2", "4">>), Str(<<"T", "r", "a", "n", "s", "p", "o", "r", "t">>), Str(<<"$", "9", "5">>), Str(<<"U", "b", "e", "r">>)>>,
      <<Str(<<"M", "a", "r", " ", "2", "0", "2", "4">>), Str(<<"F", "o", "o", "d">>), Str(<<"$", "5", "1", "0">>), Str(<<"G", "r", "o", "c", "e", "r", "i", "e", "s", " ", "a", "n", "d", " ", "d", "i", "n", "i", "n", "g">>)>>,
      <<Str(<<"M", "a", "r", " ", "2", "0", "2", "4">>), Str(<<"R", "e", "n", "t">>), Str(<<"$", "1", "2", "0", "0">>), Str(<<"M", "o", "n", "t", "h", "l", "y", " ", "r", "e", "n", "t">>)>>,
      <<Str(<<"M", "a", "r", " ", "2", "0", "2", "4">>), Str(<<"T", "r", "a", "n", "s", "p", "o", "r", "t">>), Str(<<"$", "6", "0">>), Str(<<"B", "u", "s", " ", "p", "a", "s", "s">>)>>>>

\* test_budget.csv as the array-of-arrays parseFile works on
SampleCsv == <<SampleHeader>> \o SampleData

\* the sample, or the sample with some of its data rows left out
InitSample ==
    /\ pc = "ready"
    /\ \E keep \in SUBSET (1..Len(SampleData)) :
          rawRows = <<SampleHeader>> \o FilterIdx(SampleData, keep, 1)
    /\ parsed = None /\ refiltered = None
    /\ values = None /\ colType = None /\ sample = None
    /\ permValues = None /\ permType = None /\ permSample = None
    /\ chartCols = None /\ suggested = None
    /\ NoSheet /\ NoApi

\* POST /api/suggest-charts with the columns POST /api/parse answered
SuggestParsed ==
    /\ pc = "parsed"
    /\ parsed.ok
    /\ chartCols' = parsed.columns
    /\ suggested' = suggestCharts(chartCols')
    /\ pc' = "suggested"
    /\ UNCHANGED <<rawRows, parsed, refiltered, values, colType, sample,
                   permValues, permType, permSample>>
    /\ UNCHANGED <<sheetVars, apiVars>>

NextSample == ParseFile \/ SuggestParsed

SpecSample == InitSample /\ [][NextSample]_vars

(***************************************************************************)
(* The HTTP API over Firestore and Cloud Storage.  A handler runs up to    *)
(* its next await in one step, so the steps of requests in flight          *)
(* interleave.  The synchronous checks of a request and its first read     *)
(* (assertUserExists) happen in the step in which the request begins; a    *)
(* read of the bucket's file list and the deletions that follow it are one *)
(* step.  crypto.randomUUID() returns the next unused number.              *)
(***************************************************************************)
\* no call of parseFile or suggestCharts outside a handler
NoCall ==
    /\ rawRows = None /\ parsed = None /\ refiltered = None
    /\ values = None /\ colType = None /\ sample = None
    /\ permValues = None /\ permType = None /\ permSample = None
    /\ chartCols = None /\ suggested = None
    /\ NoSheet

callVars ==
    <<pc, rawRows, parsed, refiltered, values, colType, sample, permValues,
      permType, permSample, chartCols, suggested, sheetVars>>

ProjectLimit == 5

\* users/{uid} maps to lastActiveProject (0: null); a project document is
\* [ownerId, sheetCount]; a sheet document, under the key <<project, sheet>>,
\* is [ownerId, rowCount]; an object of the bucket, under the key
\* <<project, sheet, "raw" or "data">>, holds a number of rows
store == <<users, projects, sheets, files>>

EmptyMap == [k \in {} |-> 0]

\* the map f without the given keys
Without(f, keys) == [k \in DOMAIN f \ keys |-> f[k]]

\* the map f with v under the key k
Put(f, k, v) == (k :> v) @@ f

Smallest(S) == CHOOSE x \in S : \A y \in S : x <= y

\* a slot with no request
Idle ==
    [op |-> "none", uid |-> "none", projectId |-> 0, sheetId |-> 0,
     upload |-> "none", valid |-> TRUE, pc |-> "idle", status |-> 0,
     seen |-> {}, got |-> {}]

\* a request as it arrives: projectId 0 is a request that names no
\* project, upload "none" one without a file, valid the shape of the JSON
\* body (name; rows and columns)
Request(op, uid, projectId, sheetId, upload, valid) ==
    [Idle EXCEPT !.op = op, !.uid = uid, !.projectId = projectId,
                 !.sheetId = sheetId, !.upload = upload, !.valid = valid]

\* the files uploaded: a workbook without a sheet, a workbook with a table
Uploaded ==
    [empty |-> [SheetNames |-> <<>>, Sheets |-> EmptyMap],
     table |-> [SheetNames |-> <<SheetName(1)>>,
                Sheets     |-> (SheetName(1) :> <<<<Label, Label>>, <<Money, Blank>>>>)]]

\* parseFile(req.file.buffer, req.file.originalname, selectedSheet || null)
ParsedUpload == [u \in DOMAIN Uploaded |-> parseWorkbook(Uploaded[u], Null)]

\* the status answered before the handler's second await, 0 when it goes on
Arrival(q) ==
    IF q.op \in {"parse", "ingest"} /\ q.upload = "none" THEN 400
    ELSE IF q.op \in {"parse", "ingest", "getData", "putData", "deleteSheet"}
            /\ q.projectId = 0 THEN 400
    ELSE IF q.op = "putData" /\ ~q.valid THEN 400
    ELSE IF q.uid \notin DOMAIN users THEN 404
    ELSE IF q.op = "createProject" /\ ~q.valid THEN 400
    ELSE 0

\* the status assertProjectOwner throws with everyone admitted to an
\* existing project
AssertProjectExists(projectId, uid) ==
    IF projectId \notin DOMAIN projects THEN 404 ELSE 0

\* the status assertProjectOwner throws, 0 when it returns
AssertProjectOwner(projectId, uid) ==
    IF projectId \notin DOMAIN projects THEN 404
    ELSE IF projects[projectId].ownerId # uid THEN 403
    ELSE 0

\* the status the handlers of /sheet/:id answer after reading the sheet
SheetDenied(q) ==
    IF <<q.projectId, q.sheetId>> \notin DOMAIN sheets THEN 404
    ELSE IF sheets[<<q.projectId, q.sheetId>>].ownerId # q.uid THEN 403
    ELSE 0

SheetsOf(p) == {key[2] : key \in {k \in DOMAIN sheets : k[1] = p}}

\* storage.getFiles({ prefix: `projects/${p}/sheets/${s}` })
FilesOf(p, s) == {k \in DOMAIN files : k[1] = p /\ k[2] = s}

\* set({ sheetCount: FieldValue.increment(d) }, { merge: true }): a
\* document that does not exist is created with the fields given
IncrementSheetCount(p, d) ==
    IF p \in DOMAIN projects
    THEN [projects EXCEPT ![p].sheetCount = @ + d]
    ELSE Put(projects, p, [ownerId |-> "none", sheetCount |-> d])

Move(r, q) == reqs' = [reqs EXCEPT ![r] = q]

Answer(r, status) ==
    Move(r, [reqs[r] EXCEPT !.pc = "done", !.status = status, !.seen = {}])

\* a request arrives in a free slot
Begin(r, q) ==
    /\ reqs[r].pc \in {"idle", "done"}
    /\ Move(r, IF Arrival(q) # 0
               THEN [q EXCEPT !.pc = "done", !.status = Arrival(q)]
               ELSE [q EXCEPT !.pc = IF q.op = "createProject" THEN "query"
                                     ELSE "owner"])
    /\ UNCHANGED <<store, issued>>

\* assertProjectOwner throws
Refuse(r) ==
    /\ reqs[r].pc = "owner"
    /\ AssertProjectOwner(reqs[r].projectId, reqs[r].uid) # 0
    /\ Answer(r, AssertProjectOwner(reqs[r].projectId, reqs[r].uid))
    /\ UNCHANGED <<store, issued>>

\* assertProjectOwner returns
Admitted(r) ==
    /\ reqs[r].pc = "owner"
    /\ AssertProjectOwner(reqs[r].projectId, reqs[r].uid) = 0

\* users/{uid}.update({ lastActiveProject }) and the answer after it
TouchUser(r, value, status) ==
    /\ IF reqs[r].uid \in DOMAIN users
       THEN users' = [users EXCEPT ![reqs[r].uid] = value] /\ Answer(r, status)
       ELSE UNCHANGED users /\ Answer(r, 500)
    /\ UNCHANGED <<projects, sheets, files, issued>>

\* POST /projects
CreateProject ==
    \E r \in DOMAIN reqs :
    LET q == reqs[r]
    IN  /\ q.op = "createProject"
        /\ \/ /\ q.pc = "query"
              /\ LET existing == {p \in DOMAIN projects : projects[p].ownerId = q.uid}
                 IN  IF Cardinality(existing) >= ProjectLimit
                     THEN Answer(r, 403) /\ UNCHANGED issued
                     ELSE /\ Move(r, [q EXCEPT !.pc = "write", !.projectId = issued + 1])
                          /\ issued' = issued + 1
              /\ UNCHANGED store
           \/ /\ q.pc = "write"
              /\ projects' = Put(projects, q.projectId, [ownerId |-> q.uid, sheetCount |-> 0])
              /\ Move(r, [q EXCEPT !.pc = "touch"])
              /\ UNCHANGED <<users, sheets, files, issued>>
           \/ /\ q.pc = "touch"
              /\ TouchUser(r, q.projectId, 201)
        /\ UNCHANGED callVars

\* DELETE /projects/:id
DeleteProject ==
    \E r \in DOMAIN reqs :
    LET q == reqs[r]
        p == q.projectId
    IN  /\ q.op = "deleteProject"
        /\ \/ Refuse(r)
           \/ /\ Admitted(r)
              /\ Move(r, [q EXCEPT !.pc = "snapshot"])
              /\ UNCHANGED <<store, issued>>
           \/ /\ q.pc = "snapshot"
              /\ Move(r, [q EXCEPT !.seen = SheetsOf(p),
                                   !.pc = IF SheetsOf(p) = {} THEN "project" ELSE "files"])
              /\ UNCHANGED <<store, issued>>
           \/ /\ q.pc = "files"
              /\ files' = Without(files, FilesOf(p, Smallest(q.seen)))
              /\ Move(r, [q EXCEPT !.pc = "doc"])
              /\ UNCHANGED <<users, projects, sheets, issued>>
           \/ /\ q.pc = "doc"
              /\ sheets' = Without(sheets, {<<p, Smallest(q.seen)>>})
              /\ Move(r, [q EXCEPT !.seen = @ \ {Smallest(q.seen)},
                                   !.pc = IF q.seen = {Smallest(q.seen)}
                                          THEN "project" ELSE "files"])
              /\ UNCHANGED <<users, projects, files, issued>>
           \/ /\ q.pc = "project"
              /\ projects' = Without(projects, {p})
              /\ Move(r, [q EXCEPT !.pc = "user"])
              /\ UNCHANGED <<users, sheets, files, issued>>
           \/ /\ q.pc = "user"
              /\ IF q.uid \notin DOMAIN users THEN Answer(r, 500)
                 ELSE IF users[q.uid] = p THEN Move(r, [q EXCEPT !.pc = "clear"])
                 ELSE Answer(r, 200)
              /\ UNCHANGED <<store, issued>>
           \/ /\ q.pc = "clear"
              /\ TouchUser(r, 0, 200)
        /\ UNCHANGED callVars

\* POST /parse that records the project as the user's last active one
ParseTouchingUser ==
    \E r \in DOMAIN reqs :
    LET q == reqs[r]
    IN  /\ q.op = "parse"
        /\ \/ Refuse(r)
           \/ /\ Admitted(r)
              /\ TouchUser(r, q.projectId,
                           IF ParsedUpload[q.upload].ok THEN 200 ELSE 422)
        /\ UNCHANGED callVars

\* POST /parse
Parse ==
    \E r \in DOMAIN reqs :
    LET q == reqs[r]
    IN  /\ q.op = "parse"
        /\ \/ Refuse(r)
           \/ /\ Admitted(r)
              /\ Answer(r, IF ParsedUpload[q.upload].ok THEN 200 ELSE 422)
              /\ UNCHANGED <<store, issued>>
        /\ UNCHANGED callVars

\* POST /ingest
Ingest ==
    \E r \in DOMAIN reqs :
    LET q == reqs[r]
        p == q.projectId
        s == q.sheetId
    IN  /\ q.op = "ingest"
        /\ \/ Refuse(r)
           \/ /\ Admitted(r)
              /\ IF ParsedUpload[q.upload].ok
                 THEN /\ Move(r, [q EXCEPT !.pc = "raw", !.sheetId = issued + 1])
                      /\ issued' = issued + 1
                 ELSE Answer(r, 500) /\ UNCHANGED issued
              /\ UNCHANGED store
           \/ /\ q.pc = "raw"
              /\ files' = Put(files, <<p, s, "raw">>, 0)
              /\ Move(r, [q EXCEPT !.pc = "json"])
              /\ UNCHANGED <<users, projects, sheets, issued>>
           \/ /\ q.pc = "json"
              /\ files' = Put(files, <<p, s, "data">>, ParsedUpload[q.upload].rowCount)
              /\ Move(r, [q EXCEPT !.pc = "sheet"])
              /\ UNCHANGED <<users, projects, sheets, issued>>
           \/ /\ q.pc = "sheet"
              /\ sheets' = Put(sheets, <<p, s>>,
                               [ownerId  |-> q.uid,
                                rowCount |-> ParsedUpload[q.upload].rowCount])
              /\ Move(r, [q EXCEPT !.pc = "count"])
              /\ UNCHANGED <<users, projects, files, issued>>
           \/ /\ q.pc = "count"
              /\ projects' = IncrementSheetCount(p, 1)
              /\ Move(r, [q EXCEPT !.pc = "touch"])
              /\ UNCHANGED <<users, sheets, files, issued>>
           \/ /\ q.pc = "touch"
              /\ TouchUser(r, p, 200)
        /\ UNCHANGED callVars

\* GET /projects/:projectId/sheets
ListSheets ==
    \E r \in DOMAIN reqs :
    LET q == reqs[r]
    IN  /\ q.op = "listSheets"
        /\ \/ Refuse(r)
           \/ /\ Admitted(r)
              /\ Move(r, [q EXCEPT !.pc = "list"])
              /\ UNCHANGED <<store, issued>>
           \/ /\ q.pc = "list"
              /\ Move(r, [q EXCEPT !.pc = "done", !.status = 200,
                                   !.got = {<<q.projectId, s>> : s \in SheetsOf(q.projectId)}])
              /\ UNCHANGED <<store, issued>>
        /\ UNCHANGED callVars

\* the read of the sheet document in the handlers of /sheet/:id, which
\* go on at the step next when the sheet is the caller's
ReadSheet(r, next) ==
    /\ \/ /\ Admitted(r)
          /\ Move(r, [reqs[r] EXCEPT !.pc = "sheet"])
       \/ /\ reqs[r].pc = "sheet"
          /\ IF SheetDenied(reqs[r]) # 0 THEN Answer(r, SheetDenied(reqs[r]))
             ELSE Move(r, [reqs[r] EXCEPT !.pc = next])
    /\ UNCHANGED <<store, issued>>

\* GET /sheet/:id/data; the rows are fetched from the data.json object
GetData ==
    \E r \in DOMAIN reqs :
    LET q == reqs[r]
    IN  /\ q.op = "getData"
        /\ \/ Refuse(r)
           \/ ReadSheet(r, "fetch")
           \/ /\ q.pc = "fetch"
              /\ IF <<q.projectId, q.sheetId, "data">> \in DOMAIN files
                 THEN Move(r, [q EXCEPT !.pc = "done", !.status = 200,
                                        !.got = {<<q.projectId, q.sheetId>>}])
                 ELSE Answer(r, 500)
              /\ UNCHANGED <<store, issued>>
        /\ UNCHANGED callVars

\* PUT /sheet/:id/data, with rows: []
PutData ==
    \E r \in DOMAIN reqs :
    LET q   == reqs[r]
        key == <<q.projectId, q.sheetId>>
    IN  /\ q.op = "putData"
        /\ \/ Refuse(r)
           \/ ReadSheet(r, "save")
           \/ /\ q.pc = "save"
              /\ files' = Put(files, <<q.projectId, q.sheetId, "data">>, 0)
              /\ Move(r, [q EXCEPT !.pc = "update"])
              /\ UNCHANGED <<users, projects, sheets, issued>>
           \/ /\ q.pc = "update"
              /\ IF key \in DOMAIN sheets
                 THEN sheets' = [sheets EXCEPT ![key].rowCount = 0] /\ Answer(r, 200)
                 ELSE UNCHANGED sheets /\ Answer(r, 500)
              /\ UNCHANGED <<users, projects, files, issued>>
        /\ UNCHANGED callVars

\* DELETE /sheet/:id
DeleteSheet ==
    \E r \in DOMAIN reqs :
    LET q == reqs[r]
    IN  /\ q.op = "deleteSheet"
        /\ \/ Refuse(r)
           \/ ReadSheet(r, "files")
           \/ /\ q.pc = "files"
              /\ files' = Without(files, FilesOf(q.projectId, q.sheetId))
              /\ Move(r, [q EXCEPT !.pc = "doc"])
              /\ UNCHANGED <<users, projects, sheets, issued>>
           \/ /\ q.pc = "doc"
              /\ sheets' = Without(sheets, {<<q.projectId, q.sheetId>>})
              /\ Move(r, [q EXCEPT !.pc = "count"])
              /\ UNCHANGED <<users, projects, files, issued>>
           \/ /\ q.pc = "count"
              /\ projects' = IncrementSheetCount(q.projectId, -1)
              /\ Answer(r, 200)
              /\ UNCHANGED <<users, sheets, files, issued>>
        /\ UNCHANGED callVars

(***************************************************************************)
(* Two users with a project each, a third uid without a profile; the       *)
(* requests of the project and sheet endpoints are handled one at a time.  *)
(***************************************************************************)
MaxUploads == 2   \* most files ingested

\* the owner of each of the two projects, fixed when the project is made
FirstOwner == (1 :> "u1") @@ (2 :> "u2")

\* the identifiers a sheet can have
SheetIds == 3..(2 + MaxUploads)

AccessRequests ==
    LET Uids == {"u1", "u2", "u3"}
    IN  {Request(op, u, p, 0, "none", TRUE) :
             op \in {"deleteProject", "listSheets"}, u \in Uids, p \in {1, 2}}
        \cup {Request(op, u, p, 0, f, TRUE) :
             op \in {"parse", "ingest"}, u \in Uids, p \in {0, 1, 2},
             f \in {"none", "empty", "table"}}
        \cup {Request(op, u, p, s, "none", TRUE) :
             op \in {"getData", "deleteSheet"}, u \in Uids, p \in {0, 1, 2},
             s \in SheetIds}
        \cup {Request("putData", u, p, s, "none", v) :
             u \in Uids, p \in {0, 1, 2}, s \in SheetIds, v \in BOOLEAN}

InitAccess ==
    /\ pc = "serving"
    /\ users = [u \in {"u1", "u2"} |-> 0]
    /\ projects = [p \in {1, 2} |-> [ownerId |-> FirstOwner[p], sheetCount |-> 0]]
    /\ sheets = EmptyMap
    /\ files = EmptyMap
    /\ reqs = [r \in {1} |-> Idle]
    /\ issued = 2
    /\ NoCall

BeginAccess ==
    /\ \E q \in AccessRequests :
          /\ q.op = "ingest" => issued < 2 + MaxUploads
          /\ Begin(1, q)
    /\ UNCHANGED callVars

NextAccess ==
    \/ BeginAccess
    \/ DeleteProject
    \/ Parse
    \/ Ingest
    \/ ListSheets
    \/ GetData
    \/ PutData
    \/ DeleteSheet

SpecAccess == InitAccess /\ [][NextAccess]_vars

(***************************************************************************)
(* One user and one project; deletions of the project and ingests into it  *)
(* in flight together, each slot taking one request.                       *)
(***************************************************************************)
MaxInFlight == 2   \* most requests in flight together

InitOwner ==
    /\ pc = "serving"
    /\ users = [u \in {"u1"} |-> 0]
    /\ projects = [p \in {1} |-> [ownerId |-> "u1", sheetCount |-> 0]]
    /\ sheets = EmptyMap
    /\ files = EmptyMap
    /\ reqs = [r \in 1..MaxInFlight |-> Idle]
    /\ issued = 1
    /\ NoCall

BeginOwner ==
    /\ \E r \in DOMAIN reqs :
          /\ reqs[r].pc = "idle"
          /\ \/ Begin(r, Request("deleteProject", "u1", 1, 0, "none", TRUE))
             \/ Begin(r, Request("ingest", "u1", 1, 0, "table", TRUE))
    /\ UNCHANGED callVars

NextOwner == BeginOwner \/ DeleteProject \/ Ingest

SpecOwner == InitOwner /\ [][NextOwner]_vars

(***************************************************************************)
(* One user and one project; ingests into it and edits and deletions of    *)
(* its sheets in flight together, a slot taking request after request.     *)
(***************************************************************************)
BeginSheets ==
    /\ \E r \in DOMAIN reqs :
          \/ /\ issued < 1 + MaxUploads
             /\ Begin(r, Request("ingest", "u1", 1, 0, "table", TRUE))
          \/ \E op \in {"deleteSheet", "putData"}, s \in 2..(1 + MaxUploads) :
                 Begin(r, Request(op, "u1", 1, s, "none", TRUE))
    /\ UNCHANGED callVars

NextSheets == BeginSheets \/ Ingest \/ DeleteSheet \/ PutData

SpecSheets == InitOwner /\ [][NextSheets]_vars

(***************************************************************************)
(* One user creating projects, with requests in flight together.           *)
(***************************************************************************)
MaxCreated == 7   \* no request begins once this many identifiers are issued

InitLimit ==
    /\ pc = "serving"
    /\ users = [u \in {"u1"} |-> 0]
    /\ projects = EmptyMap
    /\ sheets = EmptyMap
    /\ files = EmptyMap
    /\ reqs = [r \in 1..MaxInFlight |-> Idle]
    /\ issued = 0
    /\ NoCall

BeginCreate ==
    /\ issued < MaxCreated
    /\ \E r \in DOMAIN reqs, valid \in BOOLEAN :
          Begin(r, Request("createProject", "u1", 0, 0, "none", valid))
    /\ UNCHANGED callVars

NextLimit == BeginCreate \/ CreateProject

SpecLimit == InitLimit /\ [][NextLimit]_vars

(***************************************************************************)
(* Properties of parseFile                                                 *)
(***************************************************************************)
Returned == pc # "ready" /\ parsed.ok

\* the rows after the header row, as 1-based indices into rawRows
AfterHeader == (parsed.headerRowIndex + 2)..Len(rawRows)

\* exactly one non-empty cell, and not at position 0
SoleCellElsewhere(row) == NonEmptyCount(row) = 1 /\ ~IsFilled(row[1])

IsRetained(row) == \E k \in 1..Len(parsed.dataRows) : parsed.dataRows[k] = row

\* C1: a row after the header row whose only non-empty cell is at a position
\* other than 0 is retained in the rows parseFile returns.
C1_SoleCellElsewhereRetained ==
    Returned =>
        \A r \in AfterHeader :
            SoleCellElsewhere(rawRows[r]) => IsRetained(rawRows[r])

WindowEnd == Min(ScanWindow, Len(rawRows))

\* C3: headerRowIndex lies in [0, min(10, rowCount)) and is the first index
\* of that window whose non-empty cell count is the maximum over the window.
C3_HeaderIsFirstMaximum ==
    Returned =>
        LET h == parsed.headerRowIndex
        IN  /\ h \in 0..(WindowEnd - 1)
            /\ \A i \in 0..(WindowEnd - 1) :
                   NonEmptyCount(rawRows[i + 1]) <= NonEmptyCount(rawRows[h + 1])
            /\ \A i \in 0..(h - 1) :
                   NonEmptyCount(rawRows[i + 1]) < NonEmptyCount(rawRows[h + 1])

\* C3 witness: the header is not the first row, an earlier row is blank, and
\* a row beyond the window has more non-empty cells than the header.
C3_Witness ==
    /\ Returned
    /\ parsed.headerRowIndex > 0
    /\ NonEmptyCount(rawRows[1]) = 0
    /\ \E r \in (ScanWindow + 1)..Len(rawRows) :
           NonEmptyCount(rawRows[r]) > NonEmptyCount(rawRows[parsed.headerRowIndex + 1])

ColumnNameAt(idx) == parsed.columns[idx].name

\* C4: the column names returned by parseFile are pairwise distinct.
C4_ColumnNamesDistinct ==
    Returned =>
        \A i, j \in 1..Len(parsed.columns) :
            i # j => ColumnNameAt(i) # ColumnNameAt(j)

\* C5: every returned row has exactly one field per active column: its keys
\* are the active column names and there are as many keys as columns.
C5_RowHasEveryColumn ==
    Returned =>
        \A r \in 1..Len(parsed.rows) :
            /\ DOMAIN parsed.rows[r] =
                   {ColumnNameAt(idx) : idx \in 1..Len(parsed.columns)}
            /\ Cardinality(DOMAIN parsed.rows[r]) = Len(parsed.columns)

\* C8: the row filter applied to the rows it retained drops none of them and
\* keeps their order.
C8_FilterIdempotent == pc = "refiltered" => refiltered = parsed.dataRows

\* C8 witness: the first pass dropped a row and retained at least two
\* different rows, one of them with a single non-empty cell.
C8_Witness ==
    /\ pc = "refiltered"
    /\ Len(parsed.dataRows) < Len(rawRows) - (parsed.headerRowIndex + 1)
    /\ \E a, b \in 1..Len(parsed.dataRows) :
           /\ parsed.dataRows[a] # parsed.dataRows[b]
           /\ NonEmptyCount(parsed.dataRows[a]) = 1

HeaderCell(i) == rawRows[parsed.headerRowIndex + 1][i + 1]

DataInColumn(i) ==
    \E k \in 1..Len(parsed.dataRows) : IsFilled(parsed.dataRows[k][i + 1])

ActiveIndexSet ==
    {parsed.activeColIndices[n] : n \in 1..Len(parsed.activeColIndices)}

\* C10: column index i is active iff its header cell is non-blank or a
\* retained row has a non-empty value at i; the active indices are raw column
\* indices in increasing order.
C10_ActiveColumns ==
    Returned =>
        LET width == Len(rawRows[parsed.headerRowIndex + 1])
        IN  /\ ActiveIndexSet \subseteq 0..(width - 1)
            /\ \A i \in 0..(width - 1) :
                   i \in ActiveIndexSet <=>
                       (IsFilled(HeaderCell(i)) \/ DataInColumn(i))
            /\ \A m, n \in 1..Len(parsed.activeColIndices) :
                   m < n => parsed.activeColIndices[m] < parsed.activeColIndices[n]

\* C10 witness: one column is active by its data alone, under a blank header
\* cell, and a column to its right is active by its header alone.
C10_Witness ==
    /\ Returned
    /\ \E j, k \in 0..(Len(rawRows[parsed.headerRowIndex + 1]) - 1) :
           /\ j \in ActiveIndexSet /\ ~DataInColumn(j)
           /\ k \in ActiveIndexSet /\ ~IsFilled(HeaderCell(k))
           /\ k < j

(***************************************************************************)
(* Properties of inferColumnType                                           *)
(***************************************************************************)
ValuesOfClass(c) == {i \in 1..Len(values) : Classify(values[i]) = c}

\* the fraction of the values in the index set idx is at least 0.6
FractionQualifies(idx) == 10 * Cardinality(idx) >= 6 * Len(values)

DistinctValues == {ToLowerCase(Trim(values[i].s)) : i \in 1..Len(values)}

\* C6: for a non-empty list the type is given by the first satisfied rule in
\* the order Percentage, Currency, Date, Number (number + currency), then
\* Category when at most 20 distinct values, else Text; a list of currency
\* values only is Currency.
C6_FirstSatisfiedRule ==
    (pc # "ready" /\ Len(values) > 0) =>
        /\ colType =
             IF FractionQualifies(ValuesOfClass("percentage")) THEN "Percentage"
             ELSE IF FractionQualifies(ValuesOfClass("currency")) THEN "Currency"
             ELSE IF FractionQualifies(ValuesOfClass("date")) THEN "Date"
             ELSE IF FractionQualifies(ValuesOfClass("number")
                                           \cup ValuesOfClass("currency"))
                  THEN "Number"
             ELSE IF Cardinality(DistinctValues) <= 20 THEN "Category"
             ELSE "Text"
        /\ (ValuesOfClass("currency") = 1..Len(values) => colType = "Currency")

\* C6 witness: exactly 0.6 of the values are currency, others are plain
\* numbers, and the type is Currency.
C6_Witness ==
    /\ pc = "inferred"
    /\ Len(values) > 0
    /\ 10 * Cardinality(ValuesOfClass("currency")) = 6 * Len(values)
    /\ ValuesOfClass("number") # {}
    /\ colType = "Currency"

\* C9: inferColumnType returns the same type for the values reordered.
C9_TypeIgnoresOrder == pc = "reordered" => permType = colType

\* C9 witness: the reordered values have the same type and a sample slice
\* holding a value that the sample slice of the original order lacks.
C9_Witness ==
    /\ pc = "reordered"
    /\ permType = colType
    /\ \E n \in 1..Len(permSample) :
           \A m \in 1..Len(sample) : sample[m] # permSample[n]

(***************************************************************************)
(* Properties of suggestCharts                                             *)
(***************************************************************************)
Charts == suggested.charts

DateColumns == ColsOfType(chartCols, {"Date"})
NumericColumns == ColsOfType(chartCols, {"Number", "Currency", "Percentage"})
CategoryColumns == ColsOfType(chartCols, {"Category"})

IsChart(c, chartType, xCol, yCol) ==
    c.chartType = chartType /\ c.xColumn = xCol.name /\ c.yColumn = yCol.name

\* C2 as stated: every bar suggestion is directly followed by the pie
\* suggestion of the same (category, numeric) pair.
C2_BarThenPie ==
    pc = "suggested" =>
        \A n \in 1..Len(Charts) :
            Charts[n].chartType = "bar" =>
                /\ n < Len(Charts)
                /\ Charts[n + 1].chartType = "pie"
                /\ Charts[n + 1].xColumn = Charts[n].xColumn
                /\ Charts[n + 1].yColumn = Charts[n].yColumn

\* C2 amended: charts holds, for each date column (outer) and numeric column
\* (inner), one line then one area; then one bar for each category column
\* (outer) and numeric column (inner); then one pie for each such pair in the
\* same pair order; statCards holds one card per numeric column in order.
C2_FixedOrder ==
    pc = "suggested" =>
        LET nd == Len(DateColumns)
            nn == Len(NumericColumns)
            nc == Len(CategoryColumns)
        IN  /\ Len(Charts) = 2 * nd * nn + 2 * nc * nn
            /\ \A i \in 1..nd : \A j \in 1..nn :
                   LET at == 2 * ((i - 1) * nn + (j - 1)) + 1
                   IN  /\ IsChart(Charts[at], "line", DateColumns[i], NumericColumns[j])
                       /\ IsChart(Charts[at + 1], "area", DateColumns[i], NumericColumns[j])
            /\ \A i \in 1..nc : \A j \in 1..nn :
                   LET at == 2 * nd * nn + (i - 1) * nn + j
                   IN  /\ IsChart(Charts[at], "bar", CategoryColumns[i], NumericColumns[j])
                       /\ IsChart(Charts[at + nc * nn], "pie", CategoryColumns[i], NumericColumns[j])
            /\ Len(suggested.statCards) = nn
            /\ \A j \in 1..nn :
                   /\ suggested.statCards[j].chartType = "stats"
                   /\ suggested.statCards[j].yColumn = NumericColumns[j].name

\* C2 witness: two category and two numeric columns give four bars followed
\* by four pies.
C2_Witness ==
    /\ pc = "suggested"
    /\ Len(CategoryColumns) = 2
    /\ Len(NumericColumns) = 2
    /\ Charts[1].chartType = "bar" /\ Charts[4].chartType = "bar"
    /\ Charts[5].chartType = "pie" /\ Charts[8].chartType = "pie"

TypeCount(types) ==
    Cardinality({n \in 1..Len(chartCols) : chartCols[n].type \in types})

SuggestionCount == Len(suggested.charts) + Len(suggested.statCards)

ExpectedCount ==
    LET nd == TypeCount({"Date"})
        nn == TypeCount({"Number", "Currency", "Percentage"})
        nc == TypeCount({"Category"})
    IN  2 * nd * nn + 2 * nc * nn + nn

\* the column list of the example: one Date, one Currency, one Category
IsExampleColumns ==
    /\ Len(chartCols) = 3
    /\ chartCols[1].type = "Date"
    /\ chartCols[2].type = "Currency"
    /\ chartCols[3].type = "Category"

\* C7 as stated: charts plus statCards number 2*|date|*|numeric| +
\* 2*|category|*|numeric| + |numeric|, and one Date, one Currency and one
\* Category column give six suggestions.
C7_ExampleGivesSix ==
    pc = "suggested" =>
        /\ SuggestionCount = ExpectedCount
        /\ (IsExampleColumns => SuggestionCount = 6)

\* C7 amended: charts plus statCards number 2*|date|*|numeric| +
\* 2*|category|*|numeric| + |numeric|, numeric being Number, Currency or
\* Percentage; one Date, one Currency and one Category column give five
\* suggestions, four charts and one stat card.
C7_SuggestionCount ==
    pc = "suggested" =>
        /\ SuggestionCount = ExpectedCount
        /\ (IsExampleColumns =>
                Len(suggested.charts) = 4 /\ Len(suggested.statCards) = 1)

\* C7 witness: the example column list, with its line, area, bar and pie
\* charts and its stat card.
C7_Witness ==
    /\ pc = "suggested"
    /\ IsExampleColumns
    /\ [n \in 1..4 |-> suggested.charts[n].chartType]
           = <<"line", "area", "bar", "pie">>
    /\ SuggestionCount = 5


(***************************************************************************)
(* Columns that suggestCharts passes over                                  *)
(***************************************************************************)
\* the types that place a column in one of the three groups
ChartedTypes == {"Date", "Category"} \cup {"Number", "Currency", "Percentage"}

\* the names of the columns whose type places them in no group
PassedOverNames ==
    {chartCols[i].name : i \in {n \in 1..Len(chartCols) : chartCols[n].type \notin ChartedTypes}}

\* the column names a suggestion refers to
NamedBy(c) ==
    {c.yColumn} \cup (IF "xColumn" \in DOMAIN c THEN {c.xColumn} ELSE {})

\* C11: suggestCharts returns its two lists for every list of columns, the
\* empty one included (both lists are then empty), and no chart and no stat
\* card names, as xColumn or yColumn, a column of type Text or of a type
\* outside the six known ones.
C11_PassedOverNeverNamed ==
    pc = "suggested" =>
        /\ DOMAIN suggested = {"charts", "statCards"}
        /\ DOMAIN suggested.charts = 1..Len(suggested.charts)
        /\ DOMAIN suggested.statCards = 1..Len(suggested.statCards)
        /\ (chartCols = <<>> => suggested.charts = <<>> /\ suggested.statCards = <<>>)
        /\ \A n \in 1..Len(suggested.charts) :
               NamedBy(suggested.charts[n]) \cap PassedOverNames = {}
        /\ \A n \in 1..Len(suggested.statCards) :
               NamedBy(suggested.statCards[n]) \cap PassedOverNames = {}

\* a Text column and a column of an unknown type next to a category and a
\* numeric column that do produce charts
C11_Witness ==
    /\ pc = "suggested"
    /\ \E i, j \in 1..Len(chartCols) :
           chartCols[i].type = "Text" /\ chartCols[j].type = "Boolean"
    /\ Len(suggested.charts) > 0
    /\ Len(suggested.statCards) > 0

(***************************************************************************)
(* Columns without values, and blank cells in the returned rows            *)
(***************************************************************************)
\* the n-th active column (1-based position in columns) has no non-empty
\* cell in the retained rows
HasNoValues(idx) ==
    \A r \in 1..Len(parsed.dataRows) :
        ~IsFilled(parsed.dataRows[r][parsed.activeColIndices[idx] + 1])

\* C12: an active column with no non-empty value in the retained rows (it
\* is active through its header cell alone) is returned with type Text,
\* not Category, and the call returns.
C12_NoValuesIsText ==
    pc # "ready" =>
        /\ (rawRows # <<>> => parsed.ok)
        /\ (parsed.ok =>
               \A idx \in 1..Len(parsed.columns) :
                   HasNoValues(idx) =>
                       /\ parsed.columns[idx].type = "Text"
                       /\ parsed.columns[idx].sample = <<>>)

\* a column with a header cell and no value beside a column with values,
\* with at least one retained row
C12_Witness ==
    /\ Returned
    /\ Len(parsed.dataRows) > 0
    /\ \E idx, other \in 1..Len(parsed.columns) :
           /\ HasNoValues(idx)
           /\ IsFilled(HeaderCell(parsed.activeColIndices[idx]))
           /\ ~HasNoValues(other)
           /\ parsed.columns[idx].type = "Text"

\* a field value that is a string, empty or of whitespace only
IsBlankString(val) == val.k = "str" /\ Trim(val.s) = <<>>

\* no field of the row object obj is a blank string
NoBlankField(obj) == \A name \in DOMAIN obj : ~IsBlankString(obj[name])

\* the last position in columns that carries the name of position idx: the
\* one whose cell the field of that name holds
IsLastOfName(idx) ==
    \A other \in 1..Len(parsed.columns) :
        ColumnNameAt(other) = ColumnNameAt(idx) => other <= idx

\* C13: in every row object parseFile returns, in rows and in preview, no
\* field holds an empty or whitespace-only string: the field of a cell
\* that is null or blank after trimming is null, the field of any other
\* cell is the cell.
C13_BlankIsNull ==
    Returned =>
        /\ \A r \in 1..Len(parsed.rows) : NoBlankField(parsed.rows[r])
        /\ \A r \in 1..Len(parsed.preview) : NoBlankField(parsed.preview[r])
        /\ Len(parsed.rows) = Len(parsed.dataRows)
        /\ \A r \in 1..Len(parsed.rows), idx \in 1..Len(parsed.columns) :
               IsLastOfName(idx) =>
                   LET cell == parsed.dataRows[r][parsed.activeColIndices[idx] + 1]
                   IN  parsed.rows[r][ColumnNameAt(idx)] =
                           IF IsFilled(cell) THEN cell ELSE Null

\* a retained row with a whitespace-only cell in an active column, whose
\* field is null in rows and in preview
C13_Witness ==
    /\ Returned
    /\ \E r \in 1..Len(parsed.preview), idx \in 1..Len(parsed.columns) :
           /\ IsLastOfName(idx)
           /\ IsBlankString(parsed.dataRows[r][parsed.activeColIndices[idx] + 1])
           /\ parsed.rows[r][ColumnNameAt(idx)] = Null
           /\ parsed.preview[r][ColumnNameAt(idx)] = Null

(***************************************************************************)
(* The sheet parseFile selects                                             *)
(***************************************************************************)
\* the names of the workbook, as a set
SheetNameSet == {workbook.SheetNames[n] : n \in 1..Len(workbook.SheetNames)}

\* the request names a sheet of the workbook
RequestedIsSheet == requested.k = "str" /\ requested.s \in SheetNameSet

\* the requested sheet when the workbook has it, else the first sheet
ExpectedSheet ==
    IF RequestedIsSheet THEN requested.s ELSE workbook.SheetNames[1]

\* C17: the selectedSheet parseFile reports is the requested name when that
\* name is one of sheetNames and the first sheet otherwise (no name
\* requested, or a name the workbook does not have), so it is always one
\* of sheetNames; with no sheet at all, or with no row in the selected
\* sheet, the call fails and returns nothing of a result.
C17_SelectedSheet ==
    pc = "parsed" =>
        IF workbook.SheetNames = <<>> \/ workbook.Sheets[ExpectedSheet] = <<>>
        THEN /\ ~parsed.ok
             /\ DOMAIN parsed = {"ok", "error"}
        ELSE /\ parsed.ok
             /\ parsed.sheetNames = workbook.SheetNames
             /\ parsed.selectedSheet = ExpectedSheet
             /\ parsed.selectedSheet \in SheetNameSet

\* a requested sheet that is not the first is selected while the first
\* sheet has no row
C17_Witness ==
    /\ pc = "parsed"
    /\ parsed.ok
    /\ RequestedIsSheet
    /\ requested.s # workbook.SheetNames[1]
    /\ workbook.Sheets[workbook.SheetNames[1]] = <<>>
    /\ parsed.selectedSheet = requested.s

(***************************************************************************)
(* suggestCharts as a function of the names and types                      *)
(***************************************************************************)
\* the (name, type) sequence of a column list
NamesAndTypes(columns) ==
    [n \in 1..Len(columns) |-> <<columns[n].name, columns[n].type>>]

\* C18: two calls of suggestCharts on column lists with the same names and
\* types in the same order return the same charts and the same statCards,
\* whatever the other fields of the columns (such as sample) hold and
\* whichever call is made first; the first call's result and both
\* arguments are what they were when the second call has returned.
C18_SameNamesAndTypesSameResult ==
    /\ (pc \in {"suggested", "suggestedBoth"} =>
           suggested = suggestCharts(chartCols))
    /\ (pc = "suggestedBoth" =>
           /\ NamesAndTypes(chartCols) = NamesAndTypes(otherCols)
           /\ otherSuggested.charts = suggested.charts
           /\ otherSuggested.statCards = suggested.statCards)

\* both calls made, on lists that differ in a sample, with charts returned
C18_Witness ==
    /\ pc = "suggestedBoth"
    /\ chartCols # otherCols
    /\ Len(suggested.charts) > 0
    /\ Len(suggested.statCards) > 0
    /\ \E n \in 1..Len(chartCols) :
           /\ chartCols[n].type = "Category"
           /\ chartCols[n].sample = <<>>
           /\ otherCols[n].sample # <<>>

(***************************************************************************)
(* The charts of the README's sample spreadsheet                           *)
(***************************************************************************)
\* the column of chartCols with the given header text
SampleColumn(n) == [name |-> SampleHeader[n].s]

\* some chart of the given type is suggested for the two columns
HasChart(chartType, xCol, yCol) ==
    \E n \in 1..Len(suggested.charts) :
        IsChart(suggested.charts[n], chartType, xCol, yCol)

Foreign(q) ==
    q.projectId \in DOMAIN FirstOwner /\ FirstOwner[q.projectId] # q.uid

\* the request q lacks its file, or its rows and columns
Malformed(q) ==
    \/ q.op \in {"parse", "ingest"} /\ q.upload = "none"
    \/ q.op = "putData" /\ ~q.valid

C15_DeletedProjectIsGone ==
    \A r \in DOMAIN reqs :
        (reqs[r].op = "deleteProject" /\ reqs[r].pc = "done" /\ reqs[r].status = 200) =>
            /\ reqs[r].projectId \notin DOMAIN projects
            /\ SheetsOf(reqs[r].projectId) = {}

\* C16: no step of a POST /parse request, whatever its file and whatever
\* it answers, changes the users, the projects, the sheets or the bucket.
C16_ParseChangesNothing ==
    [][\A r \in DOMAIN reqs :
          (reqs'[r] # reqs[r] /\ reqs'[r].op = "parse") =>
              UNCHANGED <<users, projects, sheets, files, issued>>]_vars

\* a parse by the owner has answered 200 on a project that holds a sheet
C16_Witness ==
    /\ reqs[1].op = "parse"
    /\ reqs[1].pc = "done"
    /\ reqs[1].status = 200
    /\ SheetsOf(reqs[1].projectId) # {}
    /\ DOMAIN files # {}

\* the number of projects the user owns
Owned(docs, uid) == Cardinality({p \in DOMAIN docs : docs[p].ownerId = uid})

\* C20: whatever the interleaving of the user's POST /projects requests,
\* the user owns at most 5 projects, and a request that counts 5 or more
\* is answered 403 and creates nothing.
C20_AtMostFiveProjects ==
    [][/\ Owned(projects', "u1") <= ProjectLimit
       /\ \A r \in DOMAIN reqs :
              (reqs'[r] # reqs[r] /\ reqs[r].pc = "query"
                   /\ Owned(projects, "u1") >= ProjectLimit) =>
                  /\ reqs'[r].pc = "done"
                  /\ reqs'[r].status = 403
                  /\ projects' = projects]_vars

\* no request is between two of its steps
Quiescent == \A r \in DOMAIN reqs : reqs[r].pc \in {"idle", "done"}

\* C21: whenever no request is in progress, the sheetCount of each existing
\* project is the number of sheet documents under it, after any POST
\* /ingest, DELETE /sheet/:id and PUT /sheet/:id/data requests, answered
\* with success or not; and sheetCount is never negative.
C21_SheetCountIsNumberOfSheets ==
    /\ Quiescent =>
           \A p \in DOMAIN projects :
               projects[p].sheetCount = Cardinality(SheetsOf(p))
    /\ \A p \in DOMAIN projects : projects[p].sheetCount >= 0

\* the counters of the loop that can decide the type on their own
SingleCounters == {"percentage", "currency", "date"}

CounterType(c) ==
    IF c = "percentage" THEN "Percentage"
    ELSE IF c = "currency" THEN "Currency"
    ELSE "Date"

CounterMeets(c) == MeetsThreshold(Cardinality(ValuesOfClass(c)), Len(values))

CombinedMeets ==
    MeetsThreshold(Cardinality(ValuesOfClass("number"))
                       + Cardinality(ValuesOfClass("currency")), Len(values))

\* the type of the values when the three single checks are tried in the
\* given order, ahead of the combined check and the fallback
TypeInOrder(order) ==
    IF CounterMeets(order[1]) THEN CounterType(order[1])
    ELSE IF CounterMeets(order[2]) THEN CounterType(order[2])
    ELSE IF CounterMeets(order[3]) THEN CounterType(order[3])
    ELSE IF CombinedMeets THEN "Number"
    ELSE IF Cardinality(DistinctValues) <= UniqueLimit THEN "Category"
    ELSE "Text"

CounterOrders ==
    {order \in [1..3 -> SingleCounters] :
        \A i, j \in 1..3 : i # j => order[i] # order[j]}

\* C22: each value increments at most one of the four counters, so they sum
\* to at most the total; at most one of the percentage, currency and date
\* fractions reaches 0.6; the type is the same in whatever order those three
\* checks are tried; and when the type is Currency the combined
\* (number + currency) check is satisfied as well.
C22_OneCounterDecides ==
    (pc # "ready" /\ Len(values) > 0) =>
        /\ \A c, d \in SingleCounters \cup {"number"} :
               c # d => ValuesOfClass(c) \cap ValuesOfClass(d) = {}
        /\ Cardinality(ValuesOfClass("percentage"))
               + Cardinality(ValuesOfClass("currency"))
               + Cardinality(ValuesOfClass("number"))
               + Cardinality(ValuesOfClass("date")) <= Len(values)
        /\ Cardinality({c \in SingleCounters : CounterMeets(c)}) <= 1
        /\ \A order \in CounterOrders : TypeInOrder(order) = colType
        /\ (colType = "Currency" => CombinedMeets)

\* C22 witness: the type is Currency, the currency fraction being the one
\* that reaches 0.6, while the percentage counter is positive too.
C22_Witness ==
    /\ pc = "inferred"
    /\ colType = "Currency"
    /\ ValuesOfClass("percentage") # {}
    /\ CounterMeets("currency")
    /\ ~CounterMeets("percentage")

====
